---- MODULE Spec2Model ----
(***************************************************************************)
(* Cosmosnaut: the POST /dbs emulator.  A HashMapStore behind an           *)
(* Arc<tokio::sync::Mutex<_>> is shared by every request handler           *)
(* (create_database).  Each handler locks the store, runs                  *)
(* Store::create_database (contains_key, then insert), builds the response *)
(* tuple and returns; axum then converts the tuple into the HTTP response. *)
(* The library (lib.rs) shapes headers and a JSON body, the binary         *)
(* (main.rs) returns the status code alone.                                *)
(***************************************************************************)
EXTENDS Integers, Sequences, FiniteSets, TLC

\* Number of requests (handler futures) one execution issues.
NumReq == 3

\* Handler slots: one per request.
Handlers == 1..NumReq

\* Request payload ids.  The handler validates nothing, so the empty string
\* and the string the duplicate response carries as its body id are ids too.
Ids == {"", "123"}

NoHandler == 0
NoId == "<none>"

StatusNone == 0
StatusOK == 200
StatusBadRequest == 400

VARIABLES
    variant,         \* which program runs: "lib" (app()) or "main" (the binary)
    entries,         \* HashMapStore.entries: id -> Database
    holder,          \* the handler owning the Mutex (guard or assigned permit)
    waitq,           \* handlers queued on the Mutex, in FIFO order
    pc,              \* each handler's position in create_database
    payload,         \* each handler's CreateDatabaseRequest.id
    result,          \* what Store::create_database returned to the handler
    tuple,           \* the value the handler's match expression built
    resp,            \* the HTTP response axum made of the tuple
    returned_before, \* history: the handlers that had returned when h was invoked
    pre,             \* history: the registry's ids when h was invoked
    at,              \* history: the registry's ids when h obtained the guard
    twin             \* the binary (main.rs) served the same requests, its own
                     \* registry locked in the same order: its entries and
                     \* the status code each of its handlers returned

vars == <<variant, entries, holder, waitq, pc, payload, result, tuple, resp,
          returned_before, pre, at, twin>>

----------------------------------------------------------------------------
\* Faulty Database: the id field is left empty.
Database_blank_id(id) == [id |-> ""]

\* Faulty removal of a waiter: the dropped handler stays in the wait queue.
Without_nothing(q, h) == q

\* struct Database { id }
Database(id) == [id |-> id]

\* HashMapStore::new: an empty map.
HashMapStore_new == [k \in {} |-> Database(NoId)]

\* Faulty contains_key: every id looks absent.
contains_key_always_absent(m, id) == FALSE

\* HashMap::contains_key
contains_key(m, id) == id \in DOMAIN m

\* Faulty insert: the new key replaces the whole map.
insert_dropping_others(m, id, db) == [k \in {id} |-> db]

\* Faulty insert: the map is left as it was.
insert_nothing(m, id, db) == m

\* HashMap::insert: the key maps to the value, every other key is kept.
insert(m, id, db) == [k \in (DOMAIN m) \cup {id} |-> IF k = id THEN db ELSE m[k]]

\* Result<(), DatabaseError>
Ok == <<"Ok">>
DatabaseExists(id) == <<"DatabaseExists", id>>
NoResult == <<"none">>

IsOk(r) == r[1] = "Ok"
IsErr(r) == r[1] = "DatabaseExists"

\* Faulty mutex: lock() always takes the guard at once.
MutexFree_always(h) == TRUE

\* tokio Mutex: lock() takes the guard at once iff no one owns the mutex.
MutexFree(h) == h = NoHandler

----------------------------------------------------------------------------
\* f64 Display of a value given in tenths: 12 is 1.2 and prints "1.2", 10 prints "1".
Digit(d) == CASE d = 0 -> "0" [] d = 1 -> "1" [] d = 2 -> "2" [] d = 3 -> "3"
              [] d = 4 -> "4" [] d = 5 -> "5" [] d = 6 -> "6" [] d = 7 -> "7"
              [] d = 8 -> "8" [] d = 9 -> "9"

RECURSIVE NatToString(_)
NatToString(n) == IF n < 10 THEN Digit(n) ELSE NatToString(n \div 10) \o Digit(n % 10)

F64ToString(tenths) ==
    IF tenths % 10 = 0 THEN NatToString(tenths \div 10)
    ELSE NatToString(tenths \div 10) \o "." \o Digit(tenths % 10)

\* HeaderMap::insert
HeaderInsert(hs, name, value) ==
    [n \in (DOMAIN hs) \cup {name} |-> IF n = name THEN value ELSE hs[n]]

NoHeaders == [n \in {} |-> ""]
NoBody == [f \in {} |-> ""]

\* struct CosmosHeaders, as both arms of the handler's match build it.
CosmosHeaders ==
    [charge |-> 12,
     etag |-> "33a64df551425fcc55e4d42a148795d9f25f89d4",
     session_token |-> "session_token"]

\* Faulty into_response_parts: the x-ms-session-token insert is missing.
into_response_parts_no_session_token(self, headers) ==
    LET h1 == HeaderInsert(headers, "x-ms-request-charge", F64ToString(self.charge))
        h2 == HeaderInsert(h1, "etag", self.etag)
        h4 == HeaderInsert(h2, "x-ms-last-state-change-utc", "Fri, 25 Mar 2016 22:54:09.213 GMT")
        h5 == HeaderInsert(h4, "x-ms-resource-quota", "collections=5000")
        h6 == HeaderInsert(h5, "x-ms-resource-usage", "collections=28")
        h7 == HeaderInsert(h6, "x-ms-quorum-acked-lsn", "7902")
        h8 == HeaderInsert(h7, "x-ms-current-write-quorum", "3")
        h9 == HeaderInsert(h8, "x-ms-current-replica-set-size", "4")
        h10 == HeaderInsert(h9, "x-ms-schemaversion", "1.1")
        h11 == HeaderInsert(h10, "x-ms-serviceversion", "version=1.6.52.5")
        h12 == HeaderInsert(h11, "x-ms-activity-id", "6050a48c-828d-4016-b73b-5e0ce2ad6271")
    IN  HeaderInsert(h12, "x-ms-gatewayversion", "version=1.6.52.5")

\* CosmosHeaders::into_response_parts: thirteen inserts into the response's headers.
into_response_parts(self, headers) ==
    LET h1 == HeaderInsert(headers, "x-ms-request-charge", F64ToString(self.charge))
        h2 == HeaderInsert(h1, "etag", self.etag)
        h3 == HeaderInsert(h2, "x-ms-session-token", self.session_token)
        h4 == HeaderInsert(h3, "x-ms-last-state-change-utc", "Fri, 25 Mar 2016 22:54:09.213 GMT")
        h5 == HeaderInsert(h4, "x-ms-resource-quota", "collections=5000")
        h6 == HeaderInsert(h5, "x-ms-resource-usage", "collections=28")
        h7 == HeaderInsert(h6, "x-ms-quorum-acked-lsn", "7902")
        h8 == HeaderInsert(h7, "x-ms-current-write-quorum", "3")
        h9 == HeaderInsert(h8, "x-ms-current-replica-set-size", "4")
        h10 == HeaderInsert(h9, "x-ms-schemaversion", "1.1")
        h11 == HeaderInsert(h10, "x-ms-serviceversion", "version=1.6.52.5")
        h12 == HeaderInsert(h11, "x-ms-activity-id", "6050a48c-828d-4016-b73b-5e0ce2ad6271")
    IN  HeaderInsert(h12, "x-ms-gatewayversion", "version=1.6.52.5")

\* The CosmosDatabase value an arm of the match builds, given its id.
CosmosDatabase(id) ==
    [id |-> id, rid |-> "123", ts |-> 12345, _self |-> "123", etag |-> "123",
     colls |-> "123", users |-> "123"]

\* Faulty Ok arm: the body id is the placeholder.
OkArm_placeholder_id(id) ==
    [status |-> StatusOK, headers |-> CosmosHeaders, body |-> CosmosDatabase("123")]

\* lib.rs, the Ok(_) arm.
OkArm(id) ==
    [status |-> StatusOK, headers |-> CosmosHeaders, body |-> CosmosDatabase(id)]

\* Faulty Err arm: the resource id is taken from the submitted id.
ErrArm_rid_from_id(id) ==
    [status |-> StatusBadRequest, headers |-> CosmosHeaders,
     body |-> [CosmosDatabase("123") EXCEPT !.rid = id]]

\* Faulty Err arm: the body id echoes the submitted id.
ErrArm_echo_id(id) ==
    [status |-> StatusBadRequest, headers |-> CosmosHeaders, body |-> CosmosDatabase(id)]

\* lib.rs, the Err(DatabaseError::DatabaseExists(_)) arm.
ErrArm(id) ==
    [status |-> StatusBadRequest, headers |-> CosmosHeaders, body |-> CosmosDatabase("123")]

\* Faulty match of the binary: every outcome is answered 200.
MainArm_always_ok(r) == [status |-> StatusOK]

\* main.rs, the match: a status code and nothing else.
MainArm(r) == [status |-> IF IsOk(r) THEN StatusOK ELSE StatusBadRequest]

NoTuple == [status |-> StatusNone]
NoResp == [status |-> StatusNone, headers |-> NoHeaders, body |-> NoBody]

\* axum's IntoResponse: (StatusCode, CosmosHeaders, Json<_>) becomes the JSON
\* body, the headers into_response_parts inserts and the status; a bare
\* StatusCode becomes an empty response with that status.
IntoResponse(t) ==
    IF "headers" \in DOMAIN t
    THEN [status |-> t.status,
          headers |-> into_response_parts(t.headers, NoHeaders),
          body |-> t.body]
    ELSE [status |-> t.status, headers |-> NoHeaders, body |-> NoBody]

----------------------------------------------------------------------------
\* app(): a new store behind a new mutex, no request yet.
Fresh ==
    /\ entries = HashMapStore_new
    /\ holder = NoHandler
    /\ waitq = <<>>
    /\ pc = [h \in Handlers |-> "idle"]
    /\ payload = [h \in Handlers |-> NoId]
    /\ result = [h \in Handlers |-> NoResult]
    /\ tuple = [h \in Handlers |-> NoTuple]
    /\ resp = [h \in Handlers |-> NoResp]
    /\ returned_before = [h \in Handlers |-> {}]
    /\ pre = [h \in Handlers |-> {}]
    /\ at = [h \in Handlers |-> {}]
    /\ twin = [entries |-> HashMapStore_new, status |-> [h \in Handlers |-> StatusNone]]

app == variant = "lib" /\ Fresh

main == variant = "main" /\ Fresh

Init == app

InitAny == app \/ main

Returned(h) == pc[h] \in {"returned", "done"}

\* The router invokes the handler with a parsed payload.  Slots are used in
\* order, so that executions differing only in slot names are one execution.
Request(h, id) ==
    /\ pc[h] = "idle"
    /\ \A g \in Handlers : g < h => pc[g] # "idle"
    /\ pc' = [pc EXCEPT ![h] = "start"]
    /\ payload' = [payload EXCEPT ![h] = id]
    /\ returned_before' = [returned_before EXCEPT ![h] = {g \in Handlers : Returned(g)}]
    /\ pre' = [pre EXCEPT ![h] = DOMAIN entries]
    /\ UNCHANGED <<variant, twin, entries, holder, waitq, result, tuple, resp, at>>

\* svc.lock().await, first poll: the guard if the mutex is free, else the
\* handler joins the mutex's FIFO wait queue and suspends.
Lock(h) ==
    /\ pc[h] = "start"
    /\ IF MutexFree(holder)
       THEN /\ holder' = h
            /\ pc' = [pc EXCEPT ![h] = "locked"]
            /\ at' = [at EXCEPT ![h] = DOMAIN entries]
            /\ UNCHANGED waitq
       ELSE /\ waitq' = Append(waitq, h)
            /\ pc' = [pc EXCEPT ![h] = "waiting"]
            /\ UNCHANGED <<holder, at>>
    /\ UNCHANGED <<variant, twin, entries, payload, result, tuple, resp, returned_before, pre>>

\* svc.lock().await, the poll after the mutex was handed to this waiter.
Acquire(h) ==
    /\ pc[h] = "granted"
    /\ pc' = [pc EXCEPT ![h] = "locked"]
    /\ at' = [at EXCEPT ![h] = DOMAIN entries]
    /\ UNCHANGED <<variant, twin, entries, holder, waitq, payload, result, tuple, resp,
                   returned_before, pre>>

\* HashMapStore::create_database, the existence check.
Check(h) ==
    /\ pc[h] = "locked"
    /\ IF contains_key(entries, payload[h])
       THEN /\ result' = [result EXCEPT ![h] = DatabaseExists(payload[h])]
            /\ pc' = [pc EXCEPT ![h] = "matched"]
       ELSE /\ pc' = [pc EXCEPT ![h] = "absent"]
            /\ UNCHANGED result
    /\ UNCHANGED <<variant, twin, entries, holder, waitq, payload, tuple, resp,
                   returned_before, pre, at>>

\* HashMapStore::create_database, the else branch: insert and Ok(()).
Insert(h) ==
    /\ pc[h] = "absent"
    /\ entries' = insert(entries, payload[h], Database(payload[h]))
    /\ result' = [result EXCEPT ![h] = Ok]
    /\ pc' = [pc EXCEPT ![h] = "matched"]
    /\ UNCHANGED <<variant, twin, holder, waitq, payload, tuple, resp, returned_before, pre, at>>

\* lib.rs create_database: the match builds (StatusCode, CosmosHeaders, Json).
Shape(h) ==
    /\ variant = "lib"
    /\ pc[h] = "matched"
    /\ tuple' = [tuple EXCEPT ![h] =
                    IF IsOk(result[h]) THEN OkArm(payload[h]) ELSE ErrArm(payload[h])]
    /\ pc' = [pc EXCEPT ![h] = "shaped"]
    /\ UNCHANGED <<variant, twin, entries, holder, waitq, payload, result, resp,
                   returned_before, pre, at>>

\* main.rs create_database: the match builds a StatusCode.
ShapeMain(h) ==
    /\ variant = "main"
    /\ pc[h] = "matched"
    /\ tuple' = [tuple EXCEPT ![h] = MainArm(result[h])]
    /\ pc' = [pc EXCEPT ![h] = "shaped"]
    /\ UNCHANGED <<variant, twin, entries, holder, waitq, payload, result, resp,
                   returned_before, pre, at>>

\* End of create_database: the guard x goes out of scope and the tuple is
\* returned, one step (scope exit).  The mutex passes to the head of the wait
\* queue, or becomes free.
Return(h) ==
    /\ pc[h] = "shaped"
    /\ IF waitq = <<>>
       THEN /\ holder' = NoHandler
            /\ waitq' = waitq
            /\ pc' = [pc EXCEPT ![h] = "returned"]
       ELSE /\ holder' = Head(waitq)
            /\ waitq' = Tail(waitq)
            /\ pc' = [pc EXCEPT ![h] = "returned", ![Head(waitq)] = "granted"]
    /\ UNCHANGED <<variant, twin, entries, payload, result, tuple, resp, returned_before, pre, at>>

\* axum turns the returned value into the HTTP response.
Respond(h) ==
    /\ pc[h] = "returned"
    /\ resp' = [resp EXCEPT ![h] = IntoResponse(tuple[h])]
    /\ pc' = [pc EXCEPT ![h] = "done"]
    /\ UNCHANGED <<variant, twin, entries, holder, waitq, payload, result, tuple,
                   returned_before, pre, at>>

\* Faulty removal of a waiter: the whole wait queue is lost.
Without_all(q, h) == <<>>

\* The sequence q without the handler h.
Without(q, h) == SelectSeq(q, LAMBDA g : g # h)

\* The transport drops the handler's future at its one suspension point,
\* svc.lock().await: before the first poll, while queued, or after the mutex
\* was handed to it and before it was polled again (the permit is given back).
Abandon(h) ==
    /\ \/ /\ pc[h] = "start"
          /\ pc' = [pc EXCEPT ![h] = "dropped"]
          /\ UNCHANGED <<holder, waitq>>
       \/ /\ pc[h] = "waiting"
          /\ waitq' = Without(waitq, h)
          /\ pc' = [pc EXCEPT ![h] = "dropped"]
          /\ UNCHANGED holder
       \/ /\ pc[h] = "granted"
          /\ IF waitq = <<>>
             THEN /\ holder' = NoHandler
                  /\ waitq' = waitq
                  /\ pc' = [pc EXCEPT ![h] = "dropped"]
             ELSE /\ holder' = Head(waitq)
                  /\ waitq' = Tail(waitq)
                  /\ pc' = [pc EXCEPT ![h] = "dropped", ![Head(waitq)] = "granted"]
    /\ UNCHANGED <<variant, twin, entries, payload, result, tuple, resp, returned_before, pre, at>>

Next ==
    \E h \in Handlers :
        \/ \E id \in Ids : Request(h, id)
        \/ Lock(h)
        \/ Acquire(h)
        \/ Check(h)
        \/ Insert(h)
        \/ Shape(h)
        \/ Return(h)
        \/ Respond(h)
        \/ Abandon(h)

NextAny == Next \/ \E h \in Handlers : ShapeMain(h)

Spec == Init /\ [][Next]_vars

SpecAny == InitAny /\ [][NextAny]_vars

\* main.rs HashMapStore::create_database: the entries after the call and
\* its result.
main_create_database(e, id) ==
    IF contains_key(e, id)
    THEN [entries |-> e, result |-> DatabaseExists(id)]
    ELSE [entries |-> insert(e, id, Database(id)), result |-> Ok]

\* main.rs create_database, run by the binary's handler for the same request
\* while the library's handler has just got its guard: the binary's handler
\* has its own guard, calls the store and builds the status code.
MainCreate(h) ==
    /\ pc[h] = "locked"
    /\ twin.status[h] = StatusNone
    /\ LET r == main_create_database(twin.entries, payload[h])
       IN  twin' = [entries |-> r.entries,
                    status |-> [twin.status EXCEPT ![h] = MainArm(r.result).status]]
    /\ UNCHANGED <<variant, entries, holder, waitq, pc, payload, result, tuple, resp,
                   returned_before, pre, at>>

\* The library's store call, taken once the binary's handler has made its own.
PairCheck(h) == twin.status[h] # StatusNone /\ Check(h)

PairNext ==
    \E h \in Handlers :
        \/ \E id \in Ids : Request(h, id)
        \/ Lock(h)
        \/ Acquire(h)
        \/ MainCreate(h)
        \/ PairCheck(h)
        \/ Insert(h)
        \/ Shape(h)
        \/ Return(h)
        \/ Respond(h)
        \/ Abandon(h)

\* The library and the binary side by side, each on its own registry.
PairSpec == Init /\ [][PairNext]_vars

\* A step of handler h's own future.  The runtime polls every task that is
\* ready to run, and the mutex hands itself to its waiters in FIFO order.
Progress(h) ==
    Lock(h) \/ Acquire(h) \/ Check(h) \/ Insert(h) \/ Shape(h) \/ Return(h) \/ Respond(h)

FairSpec == Spec /\ \A h \in Handlers : WF_vars(Progress(h))

----------------------------------------------------------------------------
\* Vocabulary of the properties.

HasResult(h) == IsOk(result[h]) \/ IsErr(result[h])

Done(h) == pc[h] = "done"

\* g and h overlap: neither had returned when the other was invoked.
Overlap(g, h) == g \notin returned_before[h] /\ h \notin returned_before[g]

\* h was invoked on a registry without its id, and every other request for
\* that id was invoked after h had returned.
Uncontended(h) ==
    /\ payload[h] \notin pre[h]
    /\ \A g \in Handlers \ {h} : payload[g] = payload[h] => h \in returned_before[g]

Successes(S) == {h \in S : Done(h) /\ resp[h].status = StatusOK}

Rejections(S) ==
    {h \in S : Done(h) /\ resp[h].status = StatusBadRequest
                       /\ result[h] = DatabaseExists(payload[h])}

\* C1 (Uniqueness): for every id X, at most one request carrying X ever gets
\* Ok from Store::create_database, and at most one ever gets status 200.
C1_Uniqueness ==
    \A X \in Ids :
        /\ Cardinality({h \in Handlers : payload[h] = X /\ IsOk(result[h])}) <= 1
        /\ Cardinality({h \in Handlers : payload[h] = X /\ resp[h].status = StatusOK}) <= 1

\* Every request carried the same id, all were answered, one of them with 200.
C1_Witness ==
    \E X \in Ids :
        /\ \A h \in Handlers : payload[h] = X /\ Done(h)
        /\ \E h \in Handlers : resp[h].status = StatusOK

\* C2 (Concurrent linearizability): N >= 1 handlers with one id X, pairwise
\* overlapping, invoked on a registry without X, every other request for X
\* invoked only after all N returned; once all N are answered exactly one
\* has 200 and exactly N-1 have 400 from DatabaseExists.
C2_ConcurrentCreates ==
    \A X \in Ids : \A S \in (SUBSET Handlers) \ {{}} :
        ( /\ \A h \in S : payload[h] = X /\ Done(h) /\ X \notin pre[h]
          /\ \A g \in S : \A h \in S : g # h => Overlap(g, h)
          /\ \A g \in Handlers \ S : payload[g] = X => S \subseteq returned_before[g] )
        => /\ Cardinality(Successes(S)) = 1
           /\ Cardinality(Rejections(S)) = Cardinality(S) - 1

\* All NumReq handlers raced for one id and all were answered.
C2_Witness ==
    \E X \in Ids :
        /\ \A h \in Handlers : payload[h] = X /\ Done(h)
        /\ \A g \in Handlers : \A h \in Handlers : g # h => Overlap(g, h)
        /\ Cardinality(Rejections(Handlers)) = NumReq - 1

C3_Order ==
    \A h1 \in Handlers : \A h2 \in Handlers :
        ( /\ payload[h1] = payload[h2]
          /\ h1 \in returned_before[h2]
          /\ Uncontended(h1) )
        => /\ IsOk(result[h1])
           /\ HasResult(h2) => result[h2] = DatabaseExists(payload[h2])

C3_FailureKeepsEntries ==
    \A h \in Handlers : (~IsErr(result[h]) /\ IsErr(result'[h])) => entries' = entries

\* C3 (Sequential rejection without mutation): of two creates of one id, the
\* second invoked after the first returned, on a registry without the id, the
\* first gets Ok and the second DatabaseExists; and the step in which a create
\* gets DatabaseExists leaves the registry's entries as they were.
C3_SequentialRejection == []C3_Order /\ [][C3_FailureKeepsEntries]_vars

\* A second create of an id, invoked after the first returned, was rejected.
C3_Witness ==
    \E h1 \in Handlers : \E h2 \in Handlers :
        /\ payload[h1] = payload[h2]
        /\ h1 \in returned_before[h2]
        /\ Uncontended(h1)
        /\ Done(h1) /\ Done(h2)
        /\ IsErr(result[h2])

\* The body id of the duplicate response (lib.rs, the Err arm).
PlaceholderId == "123"

\* C4 as stated (Outcome-to-response mapping): 200 carries the submitted id;
\* 400 carries the placeholder, which is not the submitted id, for every
\* submitted id.
C4_Original ==
    \A h \in Handlers : Done(h) =>
        /\ IsOk(result[h]) =>
              resp[h].status = StatusOK /\ resp[h].body.id = payload[h]
        /\ IsErr(result[h]) =>
              /\ resp[h].status = StatusBadRequest
              /\ resp[h].body.id = PlaceholderId
              /\ resp[h].body.id # payload[h]

\* C4 as amended: 200 carries the submitted id; 400 carries the fixed
\* placeholder "123" whatever the submitted id, so its body id differs from
\* the submitted id exactly when the submitted id is not "123".
C4_OutcomeMapping ==
    \A h \in Handlers : Done(h) =>
        /\ IsOk(result[h]) =>
              resp[h].status = StatusOK /\ resp[h].body.id = payload[h]
        /\ IsErr(result[h]) =>
              /\ resp[h].status = StatusBadRequest
              /\ resp[h].body.id = PlaceholderId
              /\ (resp[h].body.id # payload[h]) <=> (payload[h] # PlaceholderId)

\* A duplicate create of the id "123" was answered 400, its body id being
\* the id it submitted, after the first create of "123" was answered 200.
C4_Witness ==
    \E g \in Handlers : \E h \in Handlers :
        /\ Done(g) /\ IsOk(result[g]) /\ payload[g] = PlaceholderId
        /\ Done(h) /\ IsErr(result[h]) /\ payload[h] = PlaceholderId
        /\ resp[h].status = StatusBadRequest
        /\ resp[h].body.id = payload[h]

\* C5 (Distinctness): creates of two ids A # B, each uncontended, both get Ok;
\* the registry then holds A and B, and every other create of A or B gets
\* DatabaseExists.
C5_Distinctness ==
    \A h1 \in Handlers : \A h2 \in Handlers :
        ( /\ payload[h1] # payload[h2]
          /\ Uncontended(h1) /\ Uncontended(h2)
          /\ HasResult(h1) /\ HasResult(h2) )
        => /\ IsOk(result[h1]) /\ IsOk(result[h2])
           /\ {payload[h1], payload[h2]} \subseteq DOMAIN entries
           /\ \A g \in Handlers \ {h1, h2} :
                 (payload[g] \in {payload[h1], payload[h2]} /\ HasResult(g))
                 => result[g] = DatabaseExists(payload[g])

\* Two distinct ids were created, one sequentially after the other or
\* concurrently, and a further create of one of them was rejected.
C5_Witness ==
    \E h1 \in Handlers : \E h2 \in Handlers : \E g \in Handlers \ {h1, h2} :
        /\ payload[h1] # payload[h2]
        /\ Uncontended(h1) /\ Uncontended(h2)
        /\ Overlap(h1, h2)
        /\ Done(h1) /\ Done(h2) /\ Done(g)
        /\ payload[g] = payload[h1]
        /\ resp[g].status = StatusBadRequest

\* The 13 response headers and the 7 fields of the database resource (the
\* Rust field _self is the resource's self link).
HeaderNames ==
    {"x-ms-request-charge", "etag", "x-ms-session-token", "x-ms-last-state-change-utc",
     "x-ms-resource-quota", "x-ms-resource-usage", "x-ms-quorum-acked-lsn",
     "x-ms-current-write-quorum", "x-ms-current-replica-set-size", "x-ms-schemaversion",
     "x-ms-serviceversion", "x-ms-activity-id", "x-ms-gatewayversion"}

BodyFields == {"id", "rid", "ts", "_self", "etag", "colls", "users"}

Shaped(r) == HeaderNames \subseteq DOMAIN r.headers /\ BodyFields \subseteq DOMAIN r.body

\* C6 as stated (Response shape invariant): every response of a create
\* endpoint, of the library or of the binary, created or already-exists,
\* carries the 13 headers and a body with the 7 fields.
C6_Original == \A h \in Handlers : Done(h) => Shaped(resp[h])

\* C6 as amended: every response of the library's create endpoint (app()),
\* created or already-exists, carries the 13 headers and a body with the 7
\* fields; the binary's endpoint (main.rs) answers with the status code
\* alone, no header of the 13 and no body field.
C6_ResponseShape ==
    \A h \in Handlers : Done(h) =>
        /\ variant = "lib" => Shaped(resp[h])
        /\ variant = "main" => DOMAIN resp[h].headers = {} /\ DOMAIN resp[h].body = {}

\* The library answered a create with 200 and a duplicate with 400, each
\* with exactly the 13 headers and the 7 fields.
C6_Witness ==
    /\ variant = "lib"
    /\ \E g \in Handlers : \E h \in Handlers :
        /\ Done(g) /\ resp[g].status = StatusOK
        /\ Done(h) /\ resp[h].status = StatusBadRequest
        /\ DOMAIN resp[g].headers = HeaderNames /\ DOMAIN resp[h].headers = HeaderNames
        /\ DOMAIN resp[g].body = BodyFields /\ DOMAIN resp[h].body = BodyFields
        /\ Cardinality(HeaderNames) = 13 /\ Cardinality(BodyFields) = 7

\* The sequential registry the creates are compared with: create(id) on a
\* set of ids succeeds iff id is absent, and then adds it.
Orders(S) ==
    {f \in [1..Cardinality(S) -> S] : \A i \in DOMAIN f : \A j \in DOMAIN f : i # j => f[i] # f[j]}

RealTime(f) == \A i \in DOMAIN f : \A j \in DOMAIN f : i < j => f[j] \notin returned_before[f[i]]

RECURSIVE Replays(_, _, _)
Replays(f, i, ids) ==
    IF i > Cardinality(DOMAIN f) THEN TRUE
    ELSE LET id == payload[f[i]]
         IN  /\ result[f[i]] = IF id \in ids THEN DatabaseExists(id) ELSE Ok
             /\ Replays(f, i + 1, ids \cup {id})

\* C7 (Linearizability of create): the create calls that have returned can
\* be put in a total order that keeps their real-time order (a call that
\* returned before another was invoked comes first) and that, replayed one
\* call at a time on an empty set of ids, gives each call the result it got.
C7_Linearizable ==
    \E f \in Orders({h \in Handlers : Returned(h)}) : RealTime(f) /\ Replays(f, 1, {})

\* All calls returned; two overlapping calls for one id were served in the
\* reverse of their invocation order, the later one winning.
C7_Witness ==
    /\ \A h \in Handlers : Returned(h)
    /\ \E g \in Handlers : \E h \in Handlers :
        /\ g < h /\ payload[g] = payload[h] /\ Overlap(g, h)
        /\ IsErr(result[g]) /\ IsOk(result[h])

\* C8 as stated (Lock scope): the handler holds the registry lock for the
\* check-and-insert only and has released it before it builds the status,
\* the header values and the JSON body.
C8_LockScope == \A h \in Handlers : holder = h => tuple[h] = NoTuple

\* C9 (First creation succeeds): a create of an id the registry does not hold
\* when the handler has the lock gets Ok, builds status 200 with the
\* submitted id as body id, and is answered so.
C9_FirstCreation ==
    \A h \in Handlers : (HasResult(h) /\ payload[h] \notin at[h]) =>
        /\ IsOk(result[h])
        /\ pc[h] \in {"shaped", "returned", "done"} =>
              tuple[h].status = StatusOK /\ tuple[h].body.id = payload[h]
        /\ Done(h) => resp[h].status = StatusOK /\ resp[h].body.id = payload[h]

\* The first request to a fresh app carried the empty id and was answered
\* 200 with the empty id; a later create of another id was answered 200 too.
C9_Witness ==
    \E g \in Handlers : \E h \in Handlers :
        /\ payload[g] = "" /\ pre[g] = {} /\ at[g] = {} /\ Done(g)
        /\ resp[g].status = StatusOK /\ resp[g].body.id = ""
        /\ payload[h] # "" /\ at[h] = {""} /\ Done(h)
        /\ resp[h].status = StatusOK /\ resp[h].body.id = payload[h]

C10_Step ==
    /\ DOMAIN entries \subseteq DOMAIN entries'
    /\ \A id \in DOMAIN entries : entries'[id] = entries[id]
    /\ \A id \in (DOMAIN entries') \ (DOMAIN entries) :
          \E h \in Handlers : payload[h] = id /\ ~IsOk(result[h]) /\ IsOk(result'[h])

\* C10 (Registry monotonicity): the registry starts empty; every step keeps
\* every id and the Database stored under it, and adds an id only when a
\* create of that id gets Ok.
C10_Monotonic == (DOMAIN entries = {}) /\ [][C10_Step]_vars

\* The registry has grown twice: it holds every id of the model.
C10_Witness == DOMAIN entries = Ids /\ \A h \in Handlers : Done(h)

\* The handler has the guard x: it is between svc.lock().await and the end
\* of create_database.
Holds(h) == pc[h] \in {"locked", "absent", "matched", "shaped"}

C11_Exclusion ==
    /\ Cardinality({h \in Handlers : Holds(h)}) <= 1
    /\ \A h \in Handlers : Holds(h) => holder = h
    /\ \A g \in Handlers : \A h \in Handlers :
          (IsOk(result[g]) /\ g \in returned_before[h]) => payload[g] \in pre[h]

C11_Access ==
    /\ \A h \in Handlers :
          (pc[h] \in {"locked", "absent"} /\ pc'[h] # pc[h]) => Holds(h) /\ holder = h
    /\ entries' # entries => \E h \in Handlers : holder = h /\ pc[h] = "absent"

\* C11 (Mutual exclusion): at most one handler has the guard of the registry
\* lock, and it is the mutex's owner; every contains_key and every insert is
\* a step of the handler that has the guard; the handlers share one registry
\* (an id a handler created is in the registry every later handler finds).
C11_MutualExclusion == []C11_Exclusion /\ [][C11_Access]_vars

\* A handler is between its contains_key and its insert while two others
\* are queued on the mutex.
C11_Witness ==
    \E h \in Handlers : pc[h] = "absent" /\ holder = h /\ Len(waitq) = NumReq - 1

\* The header values and the body fields other than id of every response
\* of the library.
StaticHeaders ==
    [n \in HeaderNames |->
        CASE n = "x-ms-request-charge" -> "1.2"
          [] n = "etag" -> "33a64df551425fcc55e4d42a148795d9f25f89d4"
          [] n = "x-ms-session-token" -> "session_token"
          [] n = "x-ms-last-state-change-utc" -> "Fri, 25 Mar 2016 22:54:09.213 GMT"
          [] n = "x-ms-resource-quota" -> "collections=5000"
          [] n = "x-ms-resource-usage" -> "collections=28"
          [] n = "x-ms-quorum-acked-lsn" -> "7902"
          [] n = "x-ms-current-write-quorum" -> "3"
          [] n = "x-ms-current-replica-set-size" -> "4"
          [] n = "x-ms-schemaversion" -> "1.1"
          [] n = "x-ms-serviceversion" -> "version=1.6.52.5"
          [] n = "x-ms-activity-id" -> "6050a48c-828d-4016-b73b-5e0ce2ad6271"
          [] n = "x-ms-gatewayversion" -> "version=1.6.52.5"]

StaticBody(b) ==
    /\ DOMAIN b = BodyFields
    /\ b.rid = "123" /\ b.ts = 12345 /\ b._self = "123"
    /\ b.etag = "123" /\ b.colls = "123" /\ b.users = "123"

\* C12 (Static response fields): in every response the 13 header values and
\* the six body fields other than id have the same fixed values, whatever
\* the submitted id, the outcome and the registry's history; two responses
\* differ at most in status code and body id.
C12_StaticFields ==
    \A h \in Handlers : Done(h) =>
        /\ resp[h].headers = StaticHeaders
        /\ StaticBody(resp[h].body)
        /\ \A g \in Handlers :
              (Done(g) /\ resp[g].status = resp[h].status /\ resp[g].body.id = resp[h].body.id)
              => resp[g] = resp[h]

\* Responses to different ids with different outcomes after different
\* histories: a 200 for one id, a 400 and then a 200 for the other id.
C12_Witness ==
    \E f \in Handlers : \E g \in Handlers : \E h \in Handlers :
        /\ Done(f) /\ Done(g) /\ Done(h)
        /\ resp[f].status = StatusOK /\ resp[g].status = StatusBadRequest
        /\ resp[h].status = StatusOK
        /\ payload[f] = payload[g] /\ payload[h] # payload[f]
        /\ at[h] # at[f]
        /\ resp[f].body.id # resp[h].body.id
        /\ resp[f].headers = resp[g].headers /\ resp[g].headers = resp[h].headers

C13_Quiescent == \A h \in Handlers : ~Holds(h)

\* C13 (Success/registry correspondence): whenever no handler has the guard,
\* the registry's ids are the ids for which a create has returned Ok, and
\* the successes returned are as many as the registry's entries; a returned
\* handler has status 400 iff its id was in the registry when it got the
\* guard.
C13_Correspondence ==
    /\ C13_Quiescent =>
          /\ DOMAIN entries = {payload[h] : h \in {g \in Handlers : Returned(g) /\ IsOk(result[g])}}
          /\ Cardinality({h \in Handlers : Returned(h) /\ tuple[h].status = StatusOK})
                = Cardinality(DOMAIN entries)
    /\ \A h \in Handlers : Returned(h) =>
          /\ tuple[h].status = StatusBadRequest <=> payload[h] \in at[h]
          /\ tuple[h].status = StatusOK <=> payload[h] \notin at[h]

\* No handler has the guard, both ids are in the registry, two creates
\* returned 200 and one returned 400.
C13_Witness ==
    /\ C13_Quiescent
    /\ DOMAIN entries = Ids
    /\ \E h \in Handlers : Returned(h) /\ tuple[h].status = StatusBadRequest
    /\ \A h \in Handlers : Returned(h)

C14_NoStuckWaiter ==
    \A h \in Handlers :
        /\ pc[h] = "waiting" =>
              /\ \E i \in DOMAIN waitq : waitq[i] = h
              /\ holder # NoHandler
              /\ Holds(holder) \/ pc[holder] = "granted"
        /\ Done(h) => HasResult(h) /\ resp[h].status # StatusNone /\ holder # h

\* C14 (Completion): with every ready handler polled and the mutex handed
\* over in FIFO order, a handler that starts is eventually answered, unless
\* the transport drops it while it waits; an answered handler has had the
\* guard, got a result and a response, and no longer owns the mutex; and a
\* queued handler always has a live owner ahead of it, so no state is a
\* deadlock on the lock.
C14_Completion ==
    /\ []C14_NoStuckWaiter
    /\ \A h \in Handlers : (pc[h] = "start") ~> (pc[h] \in {"done", "dropped"})

\* Every handler was answered, one of them after the registry had changed
\* between its invocation and its turn on the lock.
C14_Witness ==
    /\ \A h \in Handlers : Done(h)
    /\ \E h \in Handlers : at[h] # pre[h]
    /\ holder = NoHandler /\ waitq = <<>>

\* C15 (Variant agreement on status): the binary's status-only handler and
\* the library's header-shaped handler, each on its own initially empty
\* registry, serving the same requests in the same lock order, return the
\* same status code for every request, and whenever no handler has the
\* guard their registries hold the same ids.
C15_VariantAgreement ==
    /\ \A h \in Handlers :
          /\ pc[h] \in {"shaped", "returned", "done"} => tuple[h].status = twin.status[h]
          /\ Done(h) => resp[h].status = twin.status[h]
    /\ C13_Quiescent => DOMAIN entries = DOMAIN twin.entries

\* Both programs answered every request, with a 200 and a 400 among the
\* answers, and both registries hold the same non-empty set of ids.
C15_Witness ==
    /\ \A h \in Handlers : Done(h) /\ resp[h].status = twin.status[h]
    /\ \E h \in Handlers : twin.status[h] = StatusOK
    /\ \E h \in Handlers : twin.status[h] = StatusBadRequest
    /\ DOMAIN twin.entries = DOMAIN entries /\ DOMAIN entries # {}

Dropped(h) == pc[h] = "dropped"

C16_NoTrace ==
    /\ \A h \in Handlers : Dropped(h) =>
          /\ ~HasResult(h) /\ tuple[h] = NoTuple /\ resp[h] = NoResp
          /\ holder # h
          /\ \A i \in DOMAIN waitq : waitq[i] # h
    /\ DOMAIN entries = {payload[h] : h \in {g \in Handlers : ~Dropped(g) /\ IsOk(result[g])}}
    /\ \A h \in Handlers : HasResult(h) =>
          (IsErr(result[h]) <=>
              \E g \in Handlers \ {h} :
                  ~Dropped(g) /\ payload[g] = payload[h] /\ IsOk(result[g]))

C16_Step ==
    \A h \in Handlers :
        /\ Dropped(h) => Dropped(h)' /\ holder' # h
        /\ (~Dropped(h) /\ Dropped(h)') =>
              /\ pc[h] \in {"start", "waiting", "granted"}
              /\ entries' = entries
              /\ \A g \in Handlers \ {h} : result'[g] = result[g]

\* C16 (Abandoned request leaves no trace): a handler dropped while it waits
\* for the registry lock has no result and no response, never changes the
\* registry and never owns the mutex or a place in its queue afterwards;
\* the results of the other handlers are explained by each other alone (a
\* create fails iff another handler that was not dropped created the id);
\* and a handler is dropped only before it has the guard, never between the
\* existence check and the insert.
C16_Abandoned == []C16_NoTrace /\ [][C16_Step]_vars

\* A handler was dropped, its id is not in the registry, the mutex is free
\* and every other handler was answered, one of them with 400.
C16_Witness ==
    \E h \in Handlers :
        /\ Dropped(h) /\ payload[h] \notin DOMAIN entries
        /\ holder = NoHandler
        /\ \A g \in Handlers \ {h} : Done(g)
        /\ \E g \in Handlers \ {h} : resp[g].status = StatusBadRequest

\* C17 (Key/value agreement): every registry entry's key is the id of the
\* Database stored under it, so no two stored Databases share an id.
C17_KeyValue ==
    /\ \A k \in DOMAIN entries : entries[k].id = k
    /\ \A j \in DOMAIN entries : \A k \in DOMAIN entries :
          j # k => entries[j].id # entries[k].id

\* The registry holds two Databases, under "" and under "123".
C17_Witness ==
    /\ DOMAIN entries = Ids
    /\ Cardinality({entries[k].id : k \in DOMAIN entries}) = Cardinality(Ids)

====
